---- MODULE Spec2Model ----
(***************************************************************************)
(* Model of src/blockchain.py: accounts, world states, transactions,       *)
(* blocks and the BlockChain engine (enqueue_transaction, mine_new_block,  *)
(* add_block, last_block, is_block_valid, end_state_for_block,             *)
(* apply_transaction).                                                     *)
(*                                                                         *)
(* Modelling conventions                                                   *)
(*  - A Python dict is a sequence of [key, value] entries in insertion     *)
(*    order; assigning to an existing key keeps the entry's position.      *)
(*  - __str__ methods are modelled by string concatenation, so what a      *)
(*    string leaves out (a transaction's nonce, an account's               *)
(*    creation_tx_hash) is left out here as well.                          *)
(*  - sha256(s).hexdigest() is an injective tagging of the string s.       *)
(*  - None is the value None; format() prints it as the text "None".       *)
(*  - A raised exception is a result record with ok = FALSE and the        *)
(*    condition's name in err.                                             *)
(*  - Object identity: apply_transaction works on `copy.deepcopy(state)`;  *)
(*    the result record carries in `input` the caller's state object as    *)
(*    it is after the call, so that in-place mutation is observable.       *)
(***************************************************************************)
EXTENDS Integers, Sequences, FiniteSets, TLC

VARIABLES blocks, tx_queue, last, st, call

vars == <<blocks, tx_queue, last, st, call>>

-----------------------------------------------------------------------------
(* Bounds *)

MaxBlocks == 2

MaxQueue == 2

-----------------------------------------------------------------------------
(* Python values and dicts *)

None == "<None>"

Str(v) == IF v = None THEN "None" ELSE v

sha256(s) == "#" \o s

EmptyDict == << >>

DictHas(d, k) == \E i \in 1..Len(d) : d[i].key = k

DictIndex(d, k) == CHOOSE i \in 1..Len(d) : d[i].key = k

DictGet(d, k) == d[DictIndex(d, k)].value

DictSet(d, k, v) ==
    IF DictHas(d, k)
    THEN [d EXCEPT ![DictIndex(d, k)] = [key |-> k, value |-> v]]
    ELSE Append(d, [key |-> k, value |-> v])

DictValues(d) == [i \in 1..Len(d) |-> d[i].value]

DictKeys(d) == {d[i].key : i \in 1..Len(d)}

RECURSIVE Join(_, _)
Join(sep, strs) ==
    IF Len(strs) = 0 THEN ""
    ELSE IF Len(strs) = 1 THEN strs[1]
    ELSE strs[1] \o sep \o Join(sep, Tail(strs))

-----------------------------------------------------------------------------
(* Account *)

EXTERNALLY_OWNED == "externally_owned"

CONTRACT == "contract"

Account(address, nonce, balance, code, storage, creation_tx_hash) ==
    [address |-> address, nonce |-> nonce, balance |-> balance, code |-> code,
     storage |-> storage, creation_tx_hash |-> creation_tx_hash]

type(account) == IF account.code = None THEN EXTERNALLY_OWNED ELSE CONTRACT

\* repr() of a storage dict whose keys and values are strings
Storage_str(storage) ==
    "{" \o Join(", ", [i \in 1..Len(storage) |->
                        "'" \o storage[i].key \o "': '" \o storage[i].value \o "'"])
        \o "}"

Account_str(account) ==
    (IF type(account) = CONTRACT THEN "Contract " ELSE "")
    \o "Account: " \o account.address
    \o "\nNonce: " \o ToString(account.nonce)
    \o ", Balance: " \o ToString(account.balance)
    \o "\nCode: " \o Str(account.code)
    \o "\nStorage: " \o Storage_str(account.storage) \o "\n"

\* Contract payloads: the demo's payload, a payload that writes and then
\* raises, the empty program, and a payload that reaches the account object
\* through the frame that called exec.
SetCode == "storage['foo'] = 'bar'"

BadCode == "storage['foo'] = 'baz'; raise Exception('boom')"

EmptyCode == ""

NonceCode == "import sys; sys._getframe(1).f_locals['self'].nonce += 1"

\* exec(self.code, {'storage': storage}): the effect of the payload on the
\* storage dict it is handed and on the account object `self` of the frame
\* that runs exec, and whether it raised.  exec adds __builtins__ to the
\* globals it is given, so a payload can import and can walk the frames.
call_contract(account, storage) ==
    CASE account.code = SetCode ->
           [ok |-> TRUE, storage |-> DictSet(storage, "foo", "bar"), self |-> account]
      [] account.code = BadCode ->
           [ok |-> FALSE, storage |-> DictSet(storage, "foo", "baz"), self |-> account]
      [] account.code = EmptyCode ->
           [ok |-> TRUE, storage |-> storage, self |-> account]
      [] account.code = NonceCode ->
           [ok |-> TRUE, storage |-> storage,
            self |-> [account EXCEPT !.nonce = @ + 1]]
      [] OTHER ->
           [ok |-> FALSE, storage |-> storage, self |-> account]

-----------------------------------------------------------------------------
(* WorldState *)

WorldState(accounts) == [accounts |-> accounts]

WorldState_str(state) ==
    Join("\n", [i \in 1..Len(state.accounts) |-> Account_str(state.accounts[i].value)])

signature(state) == WorldState_str(state)

account_created_by_tx_hash(state, creation_tx_hash) ==
    LET hits == {i \in 1..Len(state.accounts) :
                    state.accounts[i].value.creation_tx_hash = creation_tx_hash}
    IN IF hits = {} THEN None
       ELSE state.accounts[CHOOSE i \in hits : \A j \in hits : i <= j].value

-----------------------------------------------------------------------------
(* Transaction *)

Transaction(sender_addr, receiver_addr, nonce, amount, data) ==
    [sender_addr |-> sender_addr, receiver_addr |-> receiver_addr,
     amount |-> amount, data |-> data, nonce |-> nonce]

Transaction_str(tx) ==
    tx.sender_addr \o "," \o Str(tx.receiver_addr) \o ","
        \o ToString(tx.amount) \o "," \o Str(tx.data)

Transaction_hash(tx) == sha256(Transaction_str(tx))

-----------------------------------------------------------------------------
(* Block *)

Block(transactions, prev_block_hash, end_state_signature) ==
    [prev_block_hash |-> prev_block_hash, transactions |-> transactions,
     end_state_signature |-> end_state_signature]

Block_str(block) ==
    block.prev_block_hash \o "\t" \o block.end_state_signature \o "\t"
        \o Join("\t", [i \in 1..Len(block.transactions) |->
                          Transaction_str(block.transactions[i].value)])

Block_hash(block) == sha256(Block_str(block))

-----------------------------------------------------------------------------
(* BlockChain: constants and genesis *)

ROOT_ACCOUNT_ADDR == "0xdeadbeef"

PRE_GENESIS_BLOCK_HASH == "00000000"

genesis_world_state ==
    WorldState(DictSet(EmptyDict, ROOT_ACCOUNT_ADDR,
                       Account(ROOT_ACCOUNT_ADDR, 0, 1000, None, EmptyDict, None)))

genesis_block == Block(EmptyDict, PRE_GENESIS_BLOCK_HASH, signature(genesis_world_state))

-----------------------------------------------------------------------------
(* apply_transaction *)

\* copy.deepcopy(state): an equal value in a fresh object, sharing nothing
\* with the caller's state (shared tells whether the working state is the
\* caller's own object).
deepcopy_shared(state) == [obj |-> state, shared |-> TRUE]

deepcopy(state) == [obj |-> state, shared |-> FALSE]

\* What a call of apply_transaction leaves behind: the returned state (when
\* ok), the raised condition (when not), and the caller's state object.
Outcome(ok, err, work, copy, state) ==
    [ok |-> ok, err |-> err, state |-> work,
     input |-> IF copy.shared THEN work ELSE state]

SetAccount(state, addr, account) ==
    [state EXCEPT !.accounts = DictSet(@, addr, account)]

\* if tx.nonce != sender_account.nonce: raise
nonce_mismatch_never(tx, sender_account) == FALSE

nonce_mismatch(tx, sender_account) == tx.nonce # sender_account.nonce

\* if tx.amount > sender_account.balance: raise
insufficient_balance_never(tx, sender_account) == FALSE

insufficient_balance(tx, sender_account) == tx.amount > sender_account.balance

\* sender_account.balance -= tx.amount
debit(account, amount) == [account EXCEPT !.balance = @ - amount]

\* receiver_account.balance += tx.amount
credit_nothing(account, amount) == account

credit(account, amount) == [account EXCEPT !.balance = @ + amount]

\* receiver_addr is None: the contract creation branch
create_contract(copy, state, tx) ==
    IF tx.data = None
    THEN Outcome(FALSE, "MissingContractCode", copy.obj, copy, state)
    ELSE LET new_contract == Account(sha256(tx.data), 0, 0, tx.data,
                                     EmptyDict, Transaction_hash(tx))
         IN Outcome(TRUE, "", SetAccount(copy.obj, new_contract.address, new_contract),
                    copy, state)

\* if tx.receiver_addr not in state.accounts: create it
ensure_receiver(work, tx) ==
    IF DictHas(work.accounts, tx.receiver_addr) THEN work
    ELSE SetAccount(work, tx.receiver_addr,
                    Account(tx.receiver_addr, 0, 0, None, EmptyDict,
                            Transaction_hash(tx)))

debit_sender(work, tx) ==
    SetAccount(work, tx.sender_addr,
               debit(DictGet(work.accounts, tx.sender_addr), tx.amount))

credit_receiver(work, tx) ==
    SetAccount(work, tx.receiver_addr,
               credit(DictGet(work.accounts, tx.receiver_addr), tx.amount))

\* the contract call on the receiver's own storage dict; what the payload
\* wrote stays written when it raises
call_receiver(copy, state, tx, work) ==
    LET receiver_account == DictGet(work.accounts, tx.receiver_addr)
        run == call_contract(receiver_account, receiver_account.storage)
    IN IF type(receiver_account) = CONTRACT
       THEN Outcome(run.ok, IF run.ok THEN "" ELSE "ContractExecutionError",
                    SetAccount(work, tx.receiver_addr,
                               [run.self EXCEPT !.storage = run.storage]),
                    copy, state)
       ELSE Outcome(TRUE, "", work, copy, state)

\* the body of apply_transaction on the working copy
apply_to_copy(copy, state, tx) ==
    IF ~DictHas(copy.obj.accounts, tx.sender_addr)
    THEN Outcome(FALSE, "UnknownSender", copy.obj, copy, state)
    ELSE IF nonce_mismatch(tx, DictGet(copy.obj.accounts, tx.sender_addr))
    THEN Outcome(FALSE, "NonceMismatch", copy.obj, copy, state)
    ELSE IF insufficient_balance(tx, DictGet(copy.obj.accounts, tx.sender_addr))
    THEN Outcome(FALSE, "InsufficientBalance", copy.obj, copy, state)
    ELSE IF tx.receiver_addr = None
    THEN create_contract(copy, state, tx)
    ELSE call_receiver(copy, state, tx,
                       credit_receiver(debit_sender(ensure_receiver(copy.obj, tx), tx), tx))

apply_transaction(state, tx) == apply_to_copy(deepcopy(state), state, tx)

-----------------------------------------------------------------------------
(* BlockChain: state derivation and validation.  `bs` is self.blocks. *)

\* for tx in block.transactions.values(): state = self.apply_transaction(state, tx)
RECURSIVE apply_transactions(_, _)
next_transaction(r, state, rest) ==
    IF r.ok THEN apply_transactions(r.state, rest)
    ELSE [ok |-> FALSE, err |-> r.err, state |-> state]

apply_transactions(state, txs) ==
    IF Len(txs) = 0 THEN [ok |-> TRUE, err |-> "", state |-> state]
    ELSE next_transaction(apply_transaction(state, Head(txs)), state, Tail(txs))

\* the loop of end_state_for_block on the parent's derived state
replay_on(parent, block) ==
    IF ~parent.ok THEN parent
    ELSE apply_transactions(parent.state, DictValues(block.transactions))

\* self.blocks[block.prev_block_hash] raises KeyError for an unknown parent
RECURSIVE end_state_for_block(_, _)
end_state_for_block(bs, block) ==
    IF Block_hash(block) = Block_hash(genesis_block)
    THEN [ok |-> TRUE, err |-> "", state |-> genesis_world_state]
    ELSE IF ~DictHas(bs, block.prev_block_hash)
    THEN [ok |-> FALSE, err |-> "MissingAncestor", state |-> genesis_world_state]
    ELSE replay_on(end_state_for_block(bs, DictGet(bs, block.prev_block_hash)), block)

signature_of(r) ==
    [ok |-> r.ok, err |-> r.err, sig |-> IF r.ok THEN signature(r.state) ELSE ""]

end_state_signature(bs, block) == signature_of(end_state_for_block(bs, block))

\* The result of is_block_valid: value is the returned boolean; raised tells
\* that an exception left the call instead.
True == [raised |-> FALSE, err |-> "", value |-> TRUE]

False == [raised |-> FALSE, err |-> "", value |-> FALSE]

\* return self.end_state_signature(block) == block.end_state_signature
compare_signature(s, block) ==
    IF ~s.ok THEN [raised |-> TRUE, err |-> s.err, value |-> FALSE]
    ELSE [raised |-> FALSE, err |-> "", value |-> (s.sig = block.end_state_signature)]

accept_signature(s, block) ==
    IF ~s.ok THEN [raised |-> TRUE, err |-> s.err, value |-> FALSE] ELSE True

\* the rest of is_block_valid once the parent's validity pv is known
after_parent(pv, bs, block) ==
    IF pv.raised THEN pv
    ELSE IF ~pv.value THEN False
    ELSE compare_signature(end_state_signature(bs, block), block)

RECURSIVE is_block_valid(_, _)
is_block_valid_genesis_by_parent(bs, block) ==
    IF block.prev_block_hash = PRE_GENESIS_BLOCK_HASH THEN True
    ELSE IF ~DictHas(bs, block.prev_block_hash) THEN False
    ELSE after_parent(is_block_valid(bs, DictGet(bs, block.prev_block_hash)), bs, block)

is_block_valid_any_signature(bs, block) ==
    IF Block_hash(block) = Block_hash(genesis_block) THEN True
    ELSE IF ~DictHas(bs, block.prev_block_hash) THEN False
    ELSE accept_signature(end_state_signature(bs, block), block)

is_block_valid(bs, block) ==
    IF Block_hash(block) = Block_hash(genesis_block) THEN True
    ELSE IF ~DictHas(bs, block.prev_block_hash) THEN False
    ELSE after_parent(is_block_valid(bs, DictGet(bs, block.prev_block_hash)), bs, block)

\* next((b for b in self.blocks.values() if fun(b)), None), for the one
\* predicate last_block uses: b.prev_block_hash == h
HasBlockWithPrev(bs, h) == \E i \in 1..Len(bs) : bs[i].value.prev_block_hash = h

find_block_by(bs, h) ==
    bs[CHOOSE i \in 1..Len(bs) :
          /\ bs[i].value.prev_block_hash = h
          /\ \A j \in 1..(i - 1) : bs[j].value.prev_block_hash # h].value

RECURSIVE last_block_from(_, _)
last_block_from_one_step(bs, current_block) ==
    IF ~HasBlockWithPrev(bs, Block_hash(current_block)) THEN current_block
    ELSE find_block_by(bs, Block_hash(current_block))

last_block_from(bs, current_block) ==
    IF ~HasBlockWithPrev(bs, Block_hash(current_block)) THEN current_block
    ELSE last_block_from(bs, find_block_by(bs, Block_hash(current_block)))

last_block(bs) == last_block_from(bs, genesis_block)

-----------------------------------------------------------------------------
(* BlockChain: chain extension.  Each returns the new self.blocks (and     *)
(* self.tx_queue) together with how the call ended: "added", "rejected"    *)
(* (the print and return of add_block) or "raised".                        *)

\* add_block once is_block_valid has answered v
insert_if_valid(v, bs, block) ==
    IF v.raised THEN [blocks |-> bs, outcome |-> "raised", err |-> v.err]
    ELSE IF ~v.value THEN [blocks |-> bs, outcome |-> "rejected", err |-> "BlockRejected"]
    ELSE [blocks |-> DictSet(bs, Block_hash(block), block),
          outcome |-> "added", err |-> ""]

add_block_unchecked(bs, block) ==
    [blocks |-> DictSet(bs, Block_hash(block), block), outcome |-> "added", err |-> ""]

add_block(bs, block) == insert_if_valid(is_block_valid(bs, block), bs, block)

NoBlock == Block(EmptyDict, "", "")

\* self.add_block(block); self.tx_queue = {}; return block
commit_block(added, bs, queue, block) ==
    IF added.outcome = "raised"
    THEN [blocks |-> bs, tx_queue |-> queue, outcome |-> "raised",
          err |-> added.err, block |-> NoBlock]
    ELSE [blocks |-> added.blocks, tx_queue |-> EmptyDict,
          outcome |-> added.outcome, err |-> added.err, block |-> block]

keep_queue(added, bs, queue, block) ==
    [blocks |-> added.blocks, tx_queue |-> queue,
     outcome |-> added.outcome, err |-> added.err, block |-> block]

\* block = Block(self.tx_queue, self.last_block().hash(), sig), once the
\* signature sig of the fake block's end state is known
build_block_clearing_queue(sig, bs, queue) ==
    IF ~sig.ok
    THEN [blocks |-> bs, tx_queue |-> EmptyDict, outcome |-> "raised",
          err |-> sig.err, block |-> NoBlock]
    ELSE commit_block(add_block(bs, Block(queue, Block_hash(last_block(bs)), sig.sig)),
                      bs, queue, Block(queue, Block_hash(last_block(bs)), sig.sig))

build_block(sig, bs, queue) ==
    IF ~sig.ok
    THEN [blocks |-> bs, tx_queue |-> queue, outcome |-> "raised",
          err |-> sig.err, block |-> NoBlock]
    ELSE commit_block(add_block(bs, Block(queue, Block_hash(last_block(bs)), sig.sig)),
                      bs, queue, Block(queue, Block_hash(last_block(bs)), sig.sig))

build_block_keeping_queue(sig, bs, queue) ==
    keep_queue(add_block(bs, Block(queue, Block_hash(last_block(bs)), sig.sig)),
               bs, queue, Block(queue, Block_hash(last_block(bs)), sig.sig))

mine_new_block_keeps_queue(bs, queue) ==
    build_block_keeping_queue(
        end_state_signature(bs, Block(queue, Block_hash(last_block(bs)), "REPLACE_ME")),
        bs, queue)

mine_new_block(bs, queue) ==
    build_block(
        end_state_signature(bs, Block(queue, Block_hash(last_block(bs)), "REPLACE_ME")),
        bs, queue)

enqueue_transaction(queue, tx) == DictSet(queue, Transaction_hash(tx), tx)

-----------------------------------------------------------------------------
(* Inputs of the chain specification *)

A1 == "0xa1"

SetAddr == sha256(SetCode)

BadAddr == sha256(BadCode)

NonceAddr == sha256(NonceCode)

ChainTxs ==
    {Transaction(ROOT_ACCOUNT_ADDR, None, 0, 0, SetCode),
     Transaction(ROOT_ACCOUNT_ADDR, SetAddr, 0, 600, None),
     Transaction(ROOT_ACCOUNT_ADDR, SetAddr, 1, 0, None)}

\* The dict a caller builds for a block's transactions, keyed by hash
RECURSIVE TxDict(_)
TxDict(txs) ==
    IF Len(txs) = 0 THEN EmptyDict
    ELSE enqueue_transaction(TxDict(SubSeq(txs, 1, Len(txs) - 1)), txs[Len(txs)])

TxSeqs == {<< >>} \cup {<<tx>> : tx \in ChainTxs}

\* Candidate blocks handed to add_block: on a known parent, any transactions
\* with the signature replay gives (when it gives one) or another one; an
\* orphan on an unknown parent; and, on the pre-genesis hash with the genesis
\* signature, the genesis block itself and blocks that carry a transaction.
Candidates(bs) ==
    {Block(TxDict(txs), p, s) :
        txs \in TxSeqs, p \in DictKeys(bs), s \in {"bad signature"}}
    \cup {Block(TxDict(txs), p,
                end_state_signature(bs, Block(TxDict(txs), p, "REPLACE_ME")).sig) :
            txs \in TxSeqs, p \in DictKeys(bs)}
    \cup {Block(TxDict(txs), sha256("orphan"), "bad signature") : txs \in TxSeqs}
    \cup {Block(TxDict(txs), PRE_GENESIS_BLOCK_HASH, signature(genesis_world_state)) :
            txs \in TxSeqs}

-----------------------------------------------------------------------------
(* Inputs of the apply_transaction specification *)

ApplyTxs ==
    {Transaction(s, None, n, a, d) :
        s \in {ROOT_ACCOUNT_ADDR, A1}, n \in {0, 1}, a \in {0, 400},
        d \in {None, SetCode, BadCode, EmptyCode}}
    \cup {Transaction(s, r, n, a, None) :
            s \in {ROOT_ACCOUNT_ADDR, A1},
            r \in {ROOT_ACCOUNT_ADDR, A1, SetAddr, BadAddr, NonceAddr},
            n \in {0, 1}, a \in {0, 400}}

RootAccounts ==
    {Account(ROOT_ACCOUNT_ADDR, n, b, None, EmptyDict, None) :
        n \in {0, 1}, b \in {300, 1000}}

OptionalAccounts ==
    << {Account(A1, 0, b, None, EmptyDict, "#seed") : b \in {0, 400}},
       {Account(SetAddr, 0, 0, SetCode, EmptyDict, "#seed"),
        Account(SetAddr, 0, 400, SetCode, DictSet(EmptyDict, "foo", "bar"), "#seed")},
       {Account(BadAddr, 0, 0, BadCode, EmptyDict, "#seed")},
       {Account(NonceAddr, 0, 0, NonceCode, EmptyDict, "#seed")} >>

RECURSIVE WithOptional(_, _)
WithOptional(accounts, k) ==
    IF k > Len(OptionalAccounts) THEN {accounts}
    ELSE WithOptional(accounts, k + 1)
         \cup UNION {WithOptional(DictSet(accounts, a.address, a), k + 1) :
                        a \in OptionalAccounts[k]}

InitStates ==
    UNION {{WorldState(d) : d \in WithOptional(DictSet(EmptyDict, r.address, r), 1)} :
              r \in RootAccounts}

-----------------------------------------------------------------------------
(* State machine.  The known block set holds the genesis block and at most *)
(* MaxBlocks others, the pending queue at most MaxQueue transactions.      *)

NoTx == Transaction("", None, 0, 0, None)

NoCall == [tx |-> NoTx, before |-> genesis_world_state,
           result |-> [ok |-> FALSE, err |-> "none", state |-> genesis_world_state,
                       input |-> genesis_world_state]]

NoOp == [op |-> "init", outcome |-> "", err |-> ""]

Init ==
    /\ blocks = DictSet(EmptyDict, Block_hash(genesis_block), genesis_block)
    /\ tx_queue = EmptyDict
    /\ last = NoOp
    /\ st = genesis_world_state
    /\ call = NoCall

Enqueue(tx) ==
    /\ Len(enqueue_transaction(tx_queue, tx)) <= MaxQueue
    /\ tx_queue' = enqueue_transaction(tx_queue, tx)
    /\ last' = [op |-> "enqueue", outcome |-> "", err |-> ""]
    /\ UNCHANGED <<blocks, st, call>>

\* mine_new_block() ends as r says
Mine(r) ==
    /\ Len(r.blocks) <= MaxBlocks + 1
    /\ blocks' = r.blocks
    /\ tx_queue' = r.tx_queue
    /\ last' = [op |-> "mine", outcome |-> r.outcome, err |-> r.err]
    /\ UNCHANGED <<st, call>>

\* add_block(block) ends as r says
AddBlockReturns(block, r) ==
    /\ Len(r.blocks) <= MaxBlocks + 1
    /\ blocks' = r.blocks
    /\ last' = [op |-> "add_block", outcome |-> r.outcome, err |-> r.err]
    /\ UNCHANGED <<tx_queue, st, call>>

\* add_block(block) for any candidate block
AddBlock == \E block \in Candidates(blocks) : AddBlockReturns(block, add_block(blocks, block))

Next ==
    \/ \E tx \in ChainTxs : Enqueue(tx)
    \/ Mine(mine_new_block(blocks, tx_queue))
    \/ AddBlock

Spec == Init /\ [][Next]_vars

\* The queue specification: enqueue_transaction and mine_new_block alone,
\* over transfers to A1 of which two differ in nothing but the nonce.
QueueTxs ==
    {Transaction(ROOT_ACCOUNT_ADDR, A1, 0, 100, None),
     Transaction(ROOT_ACCOUNT_ADDR, A1, 1, 100, None),
     Transaction(ROOT_ACCOUNT_ADDR, A1, 0, 200, None),
     Transaction(ROOT_ACCOUNT_ADDR, None, 0, 0, SetCode)}

NextQueue ==
    \/ \E tx \in QueueTxs : Enqueue(tx)
    \/ Mine(mine_new_block(blocks, tx_queue))

SpecQueue == Init /\ [][NextQueue]_vars

InitApply ==
    /\ blocks = DictSet(EmptyDict, Block_hash(genesis_block), genesis_block)
    /\ tx_queue = EmptyDict
    /\ last = NoOp
    /\ st \in InitStates
    /\ call = NoCall

\* apply_transaction(state, tx), on a state the caller holds in st, ends as r
\* says: call records the transaction, the state as it was and the result,
\* and st is the caller's state object after the call.
Apply(tx, r) ==
    /\ call' = [tx |-> tx, before |-> st, result |-> r]
    /\ st' = r.input
    /\ UNCHANGED <<blocks, tx_queue, last>>

NextApply == \E tx \in ApplyTxs : Apply(tx, apply_transaction(st, tx))

SpecApply == InitApply /\ [][NextApply]_vars

-----------------------------------------------------------------------------
(* Vocabulary of the properties *)

Newest(bs) == bs[Len(bs)].value

KnownBlocks == {blocks[i].value : i \in 1..Len(blocks)}

IsGenesis(block) == Block_hash(block) = Block_hash(genesis_block)

\* the state replay derives for a known block, and whether replay gives one
EndState(block) == end_state_for_block(blocks, block)

HasAccount(state, addr) == DictHas(state.accounts, addr)

AccountOf(state, addr) == DictGet(state.accounts, addr)

BalanceOf(state, addr) == IF HasAccount(state, addr) THEN AccountOf(state, addr).balance ELSE 0

RECURSIVE SumBalances(_)
SumBalances(accounts) ==
    IF Len(accounts) = 0 THEN 0
    ELSE Head(accounts).value.balance + SumBalances(Tail(accounts))

TotalBalance(state) == SumBalances(state.accounts)

Addresses(state) == DictKeys(state.accounts)

\* a is a strict ancestor of b along parent links of the known block set
RECURSIVE IsAncestor(_, _)
IsAncestor(a, b) ==
    /\ ~IsGenesis(b)
    /\ DictHas(blocks, b.prev_block_hash)
    /\ \/ b.prev_block_hash = Block_hash(a)
       \/ IsAncestor(a, DictGet(blocks, b.prev_block_hash))

CreateTx == Transaction(ROOT_ACCOUNT_ADDR, None, 0, 0, SetCode)

CallTxNonce1 == Transaction(ROOT_ACCOUNT_ADDR, SetAddr, 1, 0, None)

Applied == call # NoCall

SenderKnown == HasAccount(call.before, call.tx.sender_addr)

-----------------------------------------------------------------------------
(* C1 *)

\* C1: add_block inserts the block, keyed by its hash, only if is_block_valid
\* returns True for it; a call that does not insert (the block is rejected, or
\* validation raises) leaves the known block set as it was, and no call of
\* add_block touches the pending queue.
C1_AddBlockOnlyIfValid ==
    [][last'.op = "add_block" =>
        /\ tx_queue' = tx_queue
        /\ (last'.outcome # "added" => blocks' = blocks)
        /\ Len(blocks') >= Len(blocks)
        /\ \A i \in 1..Len(blocks') :
              (i > Len(blocks) \/ blocks'[i] # blocks[i]) =>
                  /\ blocks'[i].key = Block_hash(blocks'[i].value)
                  /\ is_block_valid(blocks, blocks'[i].value) = True
                  /\ last'.outcome = "added"
                  /\ \A j \in 1..Len(blocks) : blocks'[j] = blocks[j]]_vars

C1_Witness ==
    /\ last.op = "add_block"
    /\ last.outcome = "rejected"
    /\ Len(blocks) > 1
    /\ Len(tx_queue) > 0

-----------------------------------------------------------------------------
(* C2 *)

\* C2: every known block is the genesis block or has a known, valid parent and
\* an end_state_signature equal to the signature of the state got by replaying
\* its transactions on the parent's derived state; and no candidate block
\* whose parent is unknown is judged valid.
C2_KnownBlocksValid ==
    /\ \A i \in 1..Len(blocks) :
          LET b == blocks[i].value IN
          /\ blocks[i].key = Block_hash(b)
          /\ \/ IsGenesis(b)
             \/ /\ DictHas(blocks, b.prev_block_hash)
                /\ is_block_valid(blocks, DictGet(blocks, b.prev_block_hash)) = True
                /\ LET ps == EndState(DictGet(blocks, b.prev_block_hash))
                       r == apply_transactions(ps.state, DictValues(b.transactions))
                   IN /\ ps.ok
                      /\ r.ok
                      /\ b.end_state_signature = signature(r.state)
    /\ \A c \in Candidates(blocks) :
          (~IsGenesis(c) /\ ~DictHas(blocks, c.prev_block_hash)) =>
              is_block_valid(blocks, c) = False

C2_Witness ==
    /\ Len(blocks) = 3
    /\ \E b \in KnownBlocks :
          /\ ~IsGenesis(b)
          /\ b.prev_block_hash # Block_hash(genesis_block)
          /\ Len(b.transactions) > 0
    /\ last.op = "add_block"
    /\ last.outcome = "rejected"

-----------------------------------------------------------------------------
(* C3 *)

\* C3: a mine_new_block call adds a block exactly when every pending
\* transaction applies in queue order on the tip state; the block it returns
\* then has the old tip as parent, the pending queue as transactions and the
\* signature of the replayed state as end_state_signature, and after the call
\* it is in the known block set under its hash, last_block returns it and the
\* pending queue is empty.
C3_MineBuildsOnTip ==
    [][last'.op = "mine" =>
        LET tip == last_block(blocks)
            replay == apply_transactions(EndState(tip).state, DictValues(tx_queue))
            block == mine_new_block(blocks, tx_queue).block
        IN /\ EndState(tip).ok
           /\ (last'.outcome = "added") = replay.ok
           /\ replay.ok =>
                 /\ block.prev_block_hash = Block_hash(tip)
                 /\ block.transactions = tx_queue
                 /\ block.end_state_signature = signature(replay.state)
                 /\ blocks' = Append(blocks, [key |-> Block_hash(block), value |-> block])
                 /\ last_block(blocks') = block
                 /\ tx_queue' = EmptyDict]_vars

C3_Witness ==
    /\ last.op = "mine"
    /\ last.outcome = "added"
    /\ Len(blocks) = 3
    /\ Len(Newest(blocks).transactions) = 2
    /\ Newest(blocks).prev_block_hash # Block_hash(genesis_block)
    /\ last_block(blocks) = Newest(blocks)

-----------------------------------------------------------------------------
(* C4 *)

\* C4: apply_transaction never changes the state it is given: after every
\* call, successful or failed, the caller's state object holds the accounts
\* (address, nonce, balance, code, storage, creation_tx_hash) it held before,
\* and so has the same signature.
C4_InputNotMutated ==
    Applied =>
        /\ call.result.input = call.before
        /\ st = call.before
        /\ signature(st) = signature(call.before)

\* a successful call of a contract whose code wrote to storage
C4_Witness ==
    /\ Applied
    /\ call.result.ok
    /\ call.tx.receiver_addr = SetAddr
    /\ HasAccount(call.before, SetAddr)
    /\ AccountOf(call.before, SetAddr).storage = EmptyDict
    /\ AccountOf(call.result.state, SetAddr).storage # EmptyDict
    /\ st = call.before

-----------------------------------------------------------------------------
(* C5 *)

\* C5: no transaction is committed twice along one chain: a transaction
\* carried by a known block is carried by none of that block's descendants.
C5_NoReplayAlongChain ==
    \A a \in KnownBlocks : \A b \in KnownBlocks :
        IsAncestor(a, b) =>
            \A i \in 1..Len(a.transactions) : \A j \in 1..Len(b.transactions) :
                a.transactions[i].value # b.transactions[j].value

-----------------------------------------------------------------------------
(* C6 *)

\* C6: with the creation transaction from root (nonce 0) mined on genesis,
\* mining a queue that holds the call transaction (sender root, receiver the
\* contract's address, nonce 1, amount 0) adds a block, and in the new tip
\* state the contract's storage holds what its code wrote and root's balance
\* is what it was.
C6_CallWithNonce1Mines ==
    [][(/\ Len(blocks) = 2
        /\ blocks[2].value.prev_block_hash = Block_hash(genesis_block)
        /\ DictValues(blocks[2].value.transactions) = <<CreateTx>>
        /\ DictValues(tx_queue) = <<CallTxNonce1>>
        /\ last'.op = "mine")
       => /\ last'.outcome = "added"
          /\ LET after == end_state_for_block(blocks', last_block(blocks')).state
             IN /\ AccountOf(after, SetAddr).storage = DictSet(EmptyDict, "foo", "bar")
                /\ BalanceOf(after, ROOT_ACCOUNT_ADDR) = 1000]_vars

-----------------------------------------------------------------------------
(* C7 *)

\* C7: applying a transaction whose nonce differs from the nonce of its
\* sender's account fails with NonceMismatch, returns no state and leaves the
\* given state unchanged.
C7_NonceMismatchFails ==
    (Applied /\ SenderKnown
        /\ call.tx.nonce # AccountOf(call.before, call.tx.sender_addr).nonce) =>
        /\ ~call.result.ok
        /\ call.result.err = "NonceMismatch"
        /\ call.result.input = call.before
        /\ st = call.before

\* a mismatching nonce on a transaction that would otherwise be applied
C7_Witness ==
    /\ Applied /\ SenderKnown
    /\ call.tx.nonce = 0
    /\ AccountOf(call.before, call.tx.sender_addr).nonce = 1
    /\ call.tx.amount <= AccountOf(call.before, call.tx.sender_addr).balance
    /\ call.tx.receiver_addr = A1
    /\ call.result.err = "NonceMismatch"

-----------------------------------------------------------------------------
(* C8 *)

\* C8 as stated: every transaction whose amount exceeds its sender's balance
\* fails with InsufficientBalance and mutates nothing.
C8_AlwaysInsufficientBalance ==
    (Applied /\ SenderKnown
        /\ call.tx.amount > AccountOf(call.before, call.tx.sender_addr).balance) =>
        /\ ~call.result.ok
        /\ call.result.err = "InsufficientBalance"
        /\ st = call.before

\* C8 amended: a transaction whose amount exceeds its sender's balance fails
\* and mutates nothing, be it a transfer, a contract call or a contract
\* creation; it fails with InsufficientBalance when its nonce matches the
\* sender's, and with NonceMismatch (the earlier check) when it does not.
C8_InsufficientBalanceAfterNonce ==
    (Applied /\ SenderKnown
        /\ call.tx.amount > AccountOf(call.before, call.tx.sender_addr).balance) =>
        /\ ~call.result.ok
        /\ call.result.err =
              IF call.tx.nonce = AccountOf(call.before, call.tx.sender_addr).nonce
              THEN "InsufficientBalance" ELSE "NonceMismatch"
        /\ call.result.input = call.before
        /\ st = call.before

\* a contract creation that asks for more than the sender holds
C8_Witness ==
    /\ Applied /\ SenderKnown
    /\ call.tx.receiver_addr = None
    /\ call.tx.data = SetCode
    /\ call.tx.amount > AccountOf(call.before, call.tx.sender_addr).balance
    /\ call.result.err = "InsufficientBalance"

-----------------------------------------------------------------------------
(* C9 *)

-----------------------------------------------------------------------------
(* C10 *)

\* C10: a successfully applied transaction with a receiver address, of amount
\* a from X to Y with X # Y, lowers balance(X) by exactly a, raises
\* balance(Y) by exactly a (from 0 when Y did not exist), leaves every other
\* account's balance as it was and keeps the total over all accounts; Y may
\* be a contract.
C10_TransferConservesBalance ==
    (Applied /\ call.result.ok /\ call.tx.receiver_addr # None
        /\ call.tx.sender_addr # call.tx.receiver_addr) =>
        LET X == call.tx.sender_addr
            Y == call.tx.receiver_addr
            a == call.tx.amount
            new == call.result.state
        IN /\ BalanceOf(new, X) = BalanceOf(call.before, X) - a
           /\ HasAccount(new, Y)
           /\ BalanceOf(new, Y) = BalanceOf(call.before, Y) + a
           /\ Addresses(new) = Addresses(call.before) \cup {Y}
           /\ \A z \in Addresses(new) \ {X, Y} :
                 BalanceOf(new, z) = BalanceOf(call.before, z)
           /\ TotalBalance(new) = TotalBalance(call.before)

\* value sent to a contract account, with a third account present
C10_Witness ==
    /\ Applied /\ call.result.ok
    /\ call.tx.sender_addr = ROOT_ACCOUNT_ADDR
    /\ call.tx.receiver_addr = SetAddr
    /\ call.tx.amount = 400
    /\ HasAccount(call.before, SetAddr)
    /\ type(AccountOf(call.before, SetAddr)) = CONTRACT
    /\ HasAccount(call.before, A1)
    /\ BalanceOf(call.result.state, SetAddr) = 800

-----------------------------------------------------------------------------
(* C11 *)

CreatedAddr == sha256(call.tx.data)

CreatedAccount ==
    Account(CreatedAddr, 0, 0, call.tx.data, EmptyDict, Transaction_hash(call.tx))

\* C11: a successfully applied contract creation (receiver_addr None) adds
\* exactly one account: the returned state holds every account of the given
\* state, unchanged, and one more, at the address sha256(data), with nonce 0,
\* balance 0, code = data, empty storage and creation_tx_hash = tx.hash(); no
\* balance moves (the sender's is unchanged, whatever the amount), and
\* account_created_by_tx_hash(state, tx.hash()) returns the new account.
C11_CreationAddsOneAccount ==
    (Applied /\ call.result.ok /\ call.tx.receiver_addr = None) =>
        LET new == call.result.state
        IN /\ ~HasAccount(call.before, CreatedAddr)
           /\ Len(new.accounts) = Len(call.before.accounts) + 1
           /\ Addresses(new) = Addresses(call.before) \cup {CreatedAddr}
           /\ AccountOf(new, CreatedAddr) = CreatedAccount
           /\ \A z \in Addresses(call.before) :
                 AccountOf(new, z) = AccountOf(call.before, z)
           /\ BalanceOf(new, call.tx.sender_addr)
                 = BalanceOf(call.before, call.tx.sender_addr)
           /\ TotalBalance(new) = TotalBalance(call.before)
           /\ account_created_by_tx_hash(new, Transaction_hash(call.tx)) = CreatedAccount

-----------------------------------------------------------------------------
(* C12 *)

\* C12: a contract creation (receiver_addr None) that passes the nonce and
\* balance checks and whose data is absent (None) or empty ("") fails with
\* MissingContractCode, and no account is created.
C12_EmptyDataFails ==
    (Applied /\ SenderKnown
        /\ call.tx.receiver_addr = None
        /\ call.tx.data \in {None, EmptyCode}
        /\ call.tx.nonce = AccountOf(call.before, call.tx.sender_addr).nonce
        /\ call.tx.amount <= AccountOf(call.before, call.tx.sender_addr).balance) =>
        /\ ~call.result.ok
        /\ call.result.err = "MissingContractCode"
        /\ call.result.state = call.before
        /\ st = call.before

-----------------------------------------------------------------------------
(* C13 *)

\* C13: validating or adding a candidate block never ends in a raised
\* exception: every add_block call returns, having added the block or reported
\* its rejection, and for a candidate whose parent is unknown, as for one whose
\* transactions do not all apply on its parent's state, is_block_valid returns
\* False and add_block reports the rejection.
C13_ValidationNeverRaises ==
    last.op = "add_block" =>
        /\ last.outcome \in {"added", "rejected"}
        /\ \A c \in Candidates(blocks) :
              (~IsGenesis(c)
                 /\ (DictHas(blocks, c.prev_block_hash) => ~end_state_for_block(blocks, c).ok)) =>
                    /\ is_block_valid(blocks, c) = False
                    /\ add_block(blocks, c).outcome = "rejected"

-----------------------------------------------------------------------------
(* C14 *)

\* C14: when some pending transaction fails to apply as the queue is replayed
\* in order on the tip state, mine_new_block adds no block: the known block
\* set and the tip are what they were, no known block carries the queue or a
\* non-empty prefix of it that it did not carry before, and the pending queue
\* is left as it was.
C14_FailedMineChangesNothing ==
    [][(last'.op = "mine"
        /\ ~apply_transactions(EndState(last_block(blocks)).state,
                               DictValues(tx_queue)).ok)
       => /\ last'.outcome = "raised"
          /\ blocks' = blocks
          /\ last_block(blocks') = last_block(blocks)
          /\ tx_queue' = tx_queue
          /\ \A i \in 1..Len(blocks') :
                blocks'[i].value \in KnownBlocks]_vars

\* a failed mining attempt whose queue began with a transaction that applies
C14_Witness ==
    /\ last.op = "mine"
    /\ last.outcome = "raised"
    /\ DictValues(tx_queue) = <<CreateTx, CallTxNonce1>>
    /\ Len(blocks) = 2
    /\ last_block(blocks) = Newest(blocks)

-----------------------------------------------------------------------------
(* C15 *)

OnPreGenesis(block) == block.prev_block_hash = PRE_GENESIS_BLOCK_HASH

\* C15: the known block set always holds exactly one block whose parent is
\* PRE_GENESIS_BLOCK_HASH, the genesis block, under its hash; is_block_valid
\* of the genesis block is True; and end_state_for_block of it is the fixed
\* genesis state: one account, the root account, with balance 1000 and
\* nonce 0, whatever has been enqueued, mined or added.
C15_OneGenesis ==
    /\ genesis_block \in KnownBlocks
    /\ DictHas(blocks, Block_hash(genesis_block))
    /\ DictGet(blocks, Block_hash(genesis_block)) = genesis_block
    /\ \A b \in KnownBlocks : OnPreGenesis(b) => b = genesis_block
    /\ Cardinality({i \in 1..Len(blocks) : OnPreGenesis(blocks[i].value)}) = 1
    /\ is_block_valid(blocks, genesis_block) = True
    /\ EndState(genesis_block).ok
    /\ EndState(genesis_block).state = genesis_world_state
    /\ Addresses(EndState(genesis_block).state) = {ROOT_ACCOUNT_ADDR}
    /\ Len(EndState(genesis_block).state.accounts) = 1
    /\ AccountOf(EndState(genesis_block).state, ROOT_ACCOUNT_ADDR).balance = 1000
    /\ AccountOf(EndState(genesis_block).state, ROOT_ACCOUNT_ADDR).nonce = 0

\* a grown chain to which a second block on the pre-genesis hash, carrying a
\* transaction, has been offered and refused
C15_Witness ==
    /\ Len(blocks) = 3
    /\ last.op = "add_block"
    /\ last.outcome = "rejected"
    /\ \E c \in Candidates(blocks) :
          /\ OnPreGenesis(c)
          /\ c # genesis_block
          /\ Len(c.transactions) = 1
          /\ add_block(blocks, c).outcome = "rejected"

-----------------------------------------------------------------------------
(* C16 *)

\* C16: in a successfully applied transaction whose receiver is a contract
\* account, running the contract's code changes nothing but that account's
\* storage: against the given state with the amount debited and credited,
\* every other account is as it was (address, nonce, balance, code, storage),
\* the receiver keeps its nonce and code and has the credited balance, and
\* the known block set and the pending queue are unchanged.
C16_CallChangesOnlyOwnStorage ==
    [][(/\ call'.result.ok
        /\ call'.tx.receiver_addr # None
        /\ HasAccount(call'.before, call'.tx.receiver_addr)
        /\ type(AccountOf(call'.before, call'.tx.receiver_addr)) = CONTRACT
        /\ call'.tx.sender_addr # call'.tx.receiver_addr)
       => LET X == call'.tx.sender_addr
              Y == call'.tx.receiver_addr
              a == call'.tx.amount
              old == call'.before
              new == call'.result.state
          IN /\ Addresses(new) = Addresses(old)
             /\ \A z \in Addresses(old) \ {X, Y} : AccountOf(new, z) = AccountOf(old, z)
             /\ AccountOf(new, X) = [AccountOf(old, X) EXCEPT !.balance = @ - a]
             /\ AccountOf(new, Y).address = AccountOf(old, Y).address
             /\ AccountOf(new, Y).nonce = AccountOf(old, Y).nonce
             /\ AccountOf(new, Y).code = AccountOf(old, Y).code
             /\ AccountOf(new, Y).balance = AccountOf(old, Y).balance + a
             /\ blocks' = blocks
             /\ tx_queue' = tx_queue]_vars

-----------------------------------------------------------------------------
(* C17 *)

\* C17: a successfully applied transaction leaves every contract account of
\* the given state in place with the code it had; it changes that account's
\* storage only if the account is the transaction's receiver; and a contract
\* creation alters no account of the given state at all.
C17_OnlyOwnCallChangesContract ==
    (Applied /\ call.result.ok) =>
        \A z \in Addresses(call.before) :
            type(AccountOf(call.before, z)) = CONTRACT =>
                /\ HasAccount(call.result.state, z)
                /\ AccountOf(call.result.state, z).code = AccountOf(call.before, z).code
                /\ (AccountOf(call.result.state, z).storage
                        # AccountOf(call.before, z).storage)
                      => call.tx.receiver_addr = z
                /\ call.tx.receiver_addr = None
                      => AccountOf(call.result.state, z) = AccountOf(call.before, z)

-----------------------------------------------------------------------------
(* C18 *)

\* the number of times the loop of last_block advances from current_block
RECURSIVE LoopSteps(_)
LoopSteps(current_block) ==
    IF \A b \in KnownBlocks : b.prev_block_hash # Block_hash(current_block) THEN 0
    ELSE 1 + LoopSteps(find_block_by(blocks, Block_hash(current_block)))

Siblings(a, b) == a # b /\ a.prev_block_hash = b.prev_block_hash

\* C18: last_block terminates, after fewer loop steps than there are known
\* blocks, and returns a known block that is genesis or a descendant of
\* genesis along parent links and that no known block names as its parent;
\* with only genesis known it returns genesis.  Known blocks may be siblings.
C18_TipIsReachableLeaf ==
    /\ LoopSteps(genesis_block) < Len(blocks)
    /\ last_block(blocks) \in KnownBlocks
    /\ IsGenesis(last_block(blocks)) \/ IsAncestor(genesis_block, last_block(blocks))
    /\ \A b \in KnownBlocks : b.prev_block_hash # Block_hash(last_block(blocks))
    /\ Len(blocks) = 1 => last_block(blocks) = genesis_block

\* add_block has inserted a second child of genesis; the tip is the first
C18_Witness ==
    /\ Len(blocks) = 3
    /\ last.op = "add_block"
    /\ last.outcome = "added"
    /\ Siblings(blocks[2].value, blocks[3].value)
    /\ blocks[2].value.prev_block_hash = Block_hash(genesis_block)
    /\ last_block(blocks) = blocks[2].value

-----------------------------------------------------------------------------
(* C19 *)

\* C19: total balance is conserved along every chain: the state replay
\* derives for each known block exists, and the balances of its accounts add
\* up to the 1000 the genesis state holds.
C19_TotalBalanceConserved ==
    \A b \in KnownBlocks :
        /\ EndState(b).ok
        /\ TotalBalance(EndState(b).state) = TotalBalance(genesis_world_state)
        /\ TotalBalance(EndState(b).state) = 1000

-----------------------------------------------------------------------------
(* C20 *)

Queued(queue) == {queue[i].value : i \in 1..Len(queue)}

\* C20: no pending transaction is lost or duplicated.  Enqueuing a
\* transaction that is already pending leaves the queue as it is; enqueuing
\* one that differs from every pending transaction in some field (sender,
\* receiver, nonce, amount or data) adds one entry and keeps all the others;
\* and a successful mine_new_block puts each pending transaction, once, into
\* the block it adds.
C20_NothingLostOrDuplicated ==
    [][/\ last'.op = "enqueue" =>
            \E tx \in QueueTxs \cup ChainTxs :
                /\ tx \in Queued(tx_queue')
                /\ IF tx \in Queued(tx_queue)
                   THEN tx_queue' = tx_queue
                   ELSE /\ Len(tx_queue') = Len(tx_queue) + 1
                        /\ Queued(tx_queue') = Queued(tx_queue) \cup {tx}
       /\ (last'.op = "mine" /\ last'.outcome = "added") =>
            /\ Queued(Newest(blocks').transactions) = Queued(tx_queue)
            /\ Len(Newest(blocks').transactions) = Cardinality(Queued(tx_queue))]_vars

====
